---- MODULE Spec2Model ----
(***************************************************************************)
(* StudyCircle (local-learn-link): the entity store with its row-level     *)
(* security policies, and the page handlers that write to it.              *)
(*                                                                         *)
(* The store is the set of tables of supabase/migrations; every statement  *)
(* a handler awaits is one atomic step, so two browser sessions interleave *)
(* between the awaits of a handler.                                        *)
(***************************************************************************)
EXTENDS Integers, FiniteSets, Sequences, TLC

\* ---------------------------------------------------------------- bounds
MaxQuestions == 1
MaxAnswers == 2
MaxGroups == 1
MaxUserBadges == 3

\* ------------------------------------------------------- users, sessions
NoUser == "anon"
Users == {"u1", "u2", "u3"}

\* browser tabs on the question pages: two of u1, one of u2, one signed out
\* (useAuth().user is null); a specification opens some of them
Sessions == {"s1", "s2", "s3", "s4"}
SessionUser == [s \in Sessions |->
                  CASE s = "s1" -> "u1"
                    [] s = "s2" -> "u1"
                    [] s = "s3" -> "u2"
                    [] OTHER    -> NoUser]

VARIABLES
    questions,      \* public.questions:     id -> row
    answers,        \* public.answers:       id -> row
    resources,      \* public.resources:     id -> row
    study_groups,   \* public.study_groups:  id -> row
    group_members,  \* public.group_members: id -> row
    user_badges,    \* public.user_badges:   id -> row
    notifications,  \* public.notifications: id -> row
    profiles,       \* public.profiles:      user_id -> row
    qd,             \* QuestionDetail component state, per session
    cg,             \* CreateGroup.handleSubmit in flight, per user
    messages,       \* public.messages:      id -> row
    rs,             \* Resources component state (the fetched list), per session
    got,            \* the latest select result handed to a client: history
    asked,          \* question id -> the form it was created from: history
    gd,             \* GroupDetail component state and its channels, per user
    px,             \* the ai-suggestions function: request, upstream, response
    pf,             \* Profile page: the badge progress rendered last
    last            \* the latest call that may leave the store as it was
                    \* (acceptAnswer, insert into user_badges): history

vars == <<questions, answers, resources, study_groups, group_members, user_badges,
          notifications, profiles, qd, cg, messages, rs, got, asked, gd, px,
          pf, last>>

storeQA == <<questions, answers>>
storeRes == <<resources>>
storeGroups == <<study_groups, group_members>>
storeAwards == <<user_badges, notifications, profiles>>
storeChat == <<messages>>
pages == <<rs, got>>
views == <<gd, px, pf>>

\* ------------------------------------------------------------- helpers
FreshId(t) == CHOOSE i \in 1..(Cardinality(DOMAIN t) + 1) : i \notin DOMAIN t

Insert(t, row) == [i \in DOMAIN t \cup {FreshId(t)} |->
                     IF i \in DOMAIN t THEN t[i] ELSE row]

Rows(t, P(_)) == {i \in DOMAIN t : P(t[i])}

Range(f) == {f[i] : i \in DOMAIN f}

MaxOf(S) == CHOOSE x \in S : \A y \in S : y <= x

\* ids are handed out in creation order, so ordering rows by created_at is
\* ordering them by id
RECURSIVE Ascending(_)
Ascending(S) == IF S = {} THEN <<>>
                ELSE Append(Ascending(S \ {MaxOf(S)}), MaxOf(S))

RECURSIVE Descending(_)
Descending(S) == IF S = {} THEN <<>>
                 ELSE <<MaxOf(S)>> \o Descending(S \ {MaxOf(S)})

\* .limit(n)
Limit(seq, n) == SubSeq(seq, 1, IF Len(seq) < n THEN Len(seq) ELSE n)

\* what a select hands to the client `by`: key is the id the query filters
\* on (0 when it lists the table)
Select(by, from, key, rows) ==
    got' = [by |-> by, from |-> from, key |-> key, rows |-> rows]

\* ------------------------------------------- row-level security policies
\* "Users can create questions": WITH CHECK (auth.uid() = user_id)
PolicyInsertQuestions(uid, row) == uid # NoUser /\ uid = row.user_id

\* the policy with its USING clause dropped
PolicyUpdateQuestions_all(uid, row) == TRUE

\* "Users can update their own questions": USING (auth.uid() = user_id)
PolicyUpdateQuestions(uid, row) == uid # NoUser /\ uid = row.user_id

\* "Users can create answers": WITH CHECK (auth.uid() = user_id)
PolicyInsertAnswers(uid, row) == uid # NoUser /\ uid = row.user_id

\* "Users can update their own answers": USING (auth.uid() = user_id)
PolicyUpdateAnswers(uid, row) == uid # NoUser /\ uid = row.user_id

\* ------------------------------------------------ QuestionDetail page
NoQuestion == [loaded |-> FALSE, user_id |-> NoUser, is_resolved |-> FALSE,
               title |-> "", content |-> "", difficulty |-> "",
               view_count |-> 0]

\* useState initial values of the component mounted on /questions/:id; the
\* mount effect has called fetchQuestion, fetchAnswers and incrementViewCount
\* (view: the update of incrementViewCount has not reached the store, and
\* written is the view_count it carries; list: a fetchAnswers is in flight,
\* and upvotes is the answers list fetched last; fetching: a fetchQuestion
\* started while a question was shown is in flight)
Mounted(id) == [id |-> id, question |-> NoQuestion, pc |-> "idle",
                target |-> 0, fetching |-> FALSE,
                view |-> id # 0, written |-> IF id = 0 THEN 0 ELSE 1,
                list |-> id # 0, upvotes |-> <<>>]

Unmounted == Mounted(0)

\* what fetchQuestion's select returns for the row
Loaded(row) == [loaded |-> TRUE, user_id |-> row.user_id,
                is_resolved |-> row.is_resolved,
                title |-> row.title, content |-> row.content,
                difficulty |-> row.difficulty, view_count |-> row.view_count]

SetQd(s, f) == qd' = [qd EXCEPT ![s] = f]

Did(op, by, arg, res) ==
    last' = [op |-> op, by |-> by, arg |-> arg, res |-> res]

\* the form of the ask page as the specifications of acceptance fill it in
DefaultForm == [title |-> "t1", content |-> "c1", difficulty |-> "medium"]

\* AskQuestion.handleSubmit: insert the question with the form's fields as
\* typed (the columns view_count and is_resolved take their defaults), then
\* navigate to its page
AskQuestion(s, form, ok) ==
    /\ SessionUser[s] # NoUser
    /\ qd[s].pc = "idle"
    /\ LET row == [user_id |-> SessionUser[s], is_resolved |-> FALSE,
                   title |-> form.title, content |-> form.content,
                   difficulty |-> form.difficulty, view_count |-> 0]
       IN  IF ok /\ PolicyInsertQuestions(SessionUser[s], row)
           THEN /\ questions' = Insert(questions, row)
                /\ asked' = Insert(asked, form)
                /\ SetQd(s, Mounted(FreshId(questions)))
           ELSE /\ UNCHANGED <<questions, qd, asked>>
    /\ UNCHANGED <<answers, storeRes, storeChat, pages, storeGroups, storeAwards, cg, last, views>>

\* the router mounts QuestionDetail on /questions/:id (also on a reload)
OpenQuestion(s, id) ==
    /\ qd[s].pc = "idle"
    /\ id \in DOMAIN questions
    /\ SetQd(s, Mounted(id))
    /\ UNCHANGED <<storeQA, storeRes, asked, storeChat, pages, storeGroups, storeAwards, cg, last, views>>

\* fetchQuestion, started by the mount effect; an error navigates away
fetchQuestion(s, ok) ==
    /\ qd[s].pc = "idle"
    /\ qd[s].id \in DOMAIN questions
    /\ ~qd[s].question.loaded \/ qd[s].fetching
    /\ IF ok
       THEN /\ SetQd(s, [qd[s] EXCEPT !.question = Loaded(questions[qd[s].id]),
                                      !.fetching = FALSE])
       ELSE /\ SetQd(s, Unmounted)
    /\ UNCHANGED <<storeQA, storeRes, asked, storeChat, pages, storeGroups, storeAwards, cg, last, views>>

\* submitAnswer: insert an answer of the signed-in user to this question,
\* with the text as typed (returns at once when the text is blank; the
\* columns upvotes and is_accepted take their defaults)
submitAnswer(s, text, ok) ==
    /\ SessionUser[s] # NoUser
    /\ text # ""
    /\ qd[s].pc = "idle"
    /\ qd[s].id \in DOMAIN questions
    /\ Cardinality(DOMAIN answers) < MaxAnswers
    /\ LET row == [question_id |-> qd[s].id, user_id |-> SessionUser[s],
                   is_accepted |-> FALSE, content |-> text, upvotes |-> 0]
       IN  IF ok /\ PolicyInsertAnswers(SessionUser[s], row)
           THEN /\ answers' = Insert(answers, row)
           ELSE /\ UNCHANGED answers
    /\ UNCHANGED <<questions, storeRes, asked, storeChat, pages, storeGroups, storeAwards, qd, cg, last, views>>

\* first line of acceptAnswer
AcceptGuard(s) ==
    /\ SessionUser[s] # NoUser
    /\ qd[s].question.loaded
    /\ qd[s].question.user_id = SessionUser[s]

\* the condition under which the Accept button is rendered
AcceptButton(s) ==
    /\ SessionUser[s] # NoUser
    /\ qd[s].question.loaded
    /\ qd[s].question.user_id = SessionUser[s]
    /\ ~qd[s].question.is_resolved

\* the answers of a question, as fetchAnswers lists them (the list is
\* refetched after every submit and upvote; answers are never deleted)
AnswersOf(id) == Rows(answers, LAMBDA r : r.question_id = id)

\* the handler as written, without its first line
acceptAnswer_unguarded(s, a) ==
    /\ qd[s].pc = "idle"
    /\ qd[s].id \in DOMAIN questions
    /\ a \in AnswersOf(qd[s].id)
    /\ IF SessionUser[s] # NoUser /\ qd[s].question.loaded
       THEN /\ SetQd(s, [qd[s] EXCEPT !.pc = "clear", !.target = a])
            /\ Did("acceptAnswer", s, "", "begin")
       ELSE /\ UNCHANGED qd
            /\ Did("acceptAnswer", s, "", "return")
    /\ UNCHANGED <<storeQA, storeRes, asked, storeChat, pages, storeGroups, storeAwards, cg, views>>

\* acceptAnswer(answerId): returns at once unless the signed-in user owns the
\* loaded question; otherwise it was called from the rendered Accept button
acceptAnswer(s, a) ==
    /\ qd[s].pc = "idle"
    /\ qd[s].id \in DOMAIN questions
    /\ a \in AnswersOf(qd[s].id)
    /\ IF AcceptGuard(s)
       THEN /\ AcceptButton(s)
            /\ SetQd(s, [qd[s] EXCEPT !.pc = "clear", !.target = a])
            /\ Did("acceptAnswer", s, "", "begin")
       ELSE /\ UNCHANGED qd
            /\ Did("acceptAnswer", s, "", "return")
    /\ UNCHANGED <<storeQA, storeRes, asked, storeChat, pages, storeGroups, storeAwards, cg, views>>

\* update answers set is_accepted = false where question_id = id
\* (the result is not inspected)
accept_clear(s, ok) ==
    /\ qd[s].pc = "clear"
    /\ IF ok
       THEN /\ answers' = [a \in DOMAIN answers |->
                  IF /\ answers[a].question_id = qd[s].id
                     /\ PolicyUpdateAnswers(SessionUser[s], answers[a])
                  THEN [answers[a] EXCEPT !.is_accepted = FALSE]
                  ELSE answers[a]]
            /\ SetQd(s, [qd[s] EXCEPT !.pc = "set"])
       ELSE /\ UNCHANGED answers
            /\ SetQd(s, [qd[s] EXCEPT !.pc = "set"])
    /\ UNCHANGED <<questions, storeRes, asked, storeChat, pages, storeGroups, storeAwards, cg, last, views>>

\* update answers set is_accepted = true where id = answerId; an error is
\* thrown to the catch block
accept_set(s, ok) ==
    /\ qd[s].pc = "set"
    /\ IF ok
       THEN /\ answers' = [a \in DOMAIN answers |->
                  IF /\ a = qd[s].target
                     /\ PolicyUpdateAnswers(SessionUser[s], answers[a])
                  THEN [answers[a] EXCEPT !.is_accepted = TRUE]
                  ELSE answers[a]]
            /\ SetQd(s, [qd[s] EXCEPT !.pc = "resolve"])
       ELSE /\ UNCHANGED answers
            /\ SetQd(s, [qd[s] EXCEPT !.pc = "idle"])
    /\ UNCHANGED <<questions, storeRes, asked, storeChat, pages, storeGroups, storeAwards, cg, last, views>>

\* update questions set is_resolved = true where id = id (the result is not
\* inspected), then the success toast
accept_resolve(s, ok) ==
    /\ qd[s].pc = "resolve"
    /\ IF ok
       THEN /\ questions' = [q \in DOMAIN questions |->
                  IF /\ q = qd[s].id
                     /\ PolicyUpdateQuestions(SessionUser[s], questions[q])
                  THEN [questions[q] EXCEPT !.is_resolved = TRUE]
                  ELSE questions[q]]
            /\ SetQd(s, [qd[s] EXCEPT !.pc = "refresh"])
       ELSE /\ UNCHANGED questions
            /\ SetQd(s, [qd[s] EXCEPT !.pc = "refresh"])
    /\ UNCHANGED <<answers, storeRes, asked, storeChat, pages, storeGroups, storeAwards, cg, last, views>>

\* fetchQuestion(); fetchAnswers() at the end of acceptAnswer
accept_refresh(s, ok) ==
    /\ qd[s].pc = "refresh"
    /\ IF ok
       THEN /\ SetQd(s, [qd[s] EXCEPT !.pc = "idle",
                             !.question = Loaded(questions[qd[s].id])])
       ELSE /\ SetQd(s, Unmounted)
    /\ UNCHANGED <<storeQA, storeRes, asked, storeChat, pages, storeGroups, storeAwards, cg, last, views>>

\* ------------------------------------------- view and upvote counters
MaxViews == 2
MaxUpvotes == 1

\* the route parameter :id changes while QuestionDetail stays mounted (a
\* history jump between two question pages): the state of the component is
\* kept and the effect on [id] runs again, so incrementViewCount computes
\* its value from the question still shown
ChangeQuestion(s, id) ==
    /\ qd[s].pc = "idle"
    /\ qd[s].id \in DOMAIN questions
    /\ id \in DOMAIN questions
    /\ id # qd[s].id
    /\ SetQd(s, [qd[s] EXCEPT !.id = id, !.fetching = TRUE, !.list = TRUE,
                              !.view = TRUE,
                              !.written = qd[s].question.view_count + 1])
    /\ UNCHANGED <<storeQA, storeRes, asked, storeChat, pages, storeGroups,
                   storeAwards, cg, last, views>>

\* incrementViewCount: update questions set view_count = (the value computed
\* when the effect ran) where id = :id; the result is not looked at (the
\* history keeps whether the store answered with an error)
incrementViewCount(s, ok) ==
    /\ qd[s].view
    /\ qd[s].id \in DOMAIN questions
    /\ qd[s].written <= MaxViews
    /\ IF ok /\ PolicyUpdateQuestions(SessionUser[s], questions[qd[s].id])
       THEN questions' = [questions EXCEPT
                            ![qd[s].id].view_count = qd[s].written]
       ELSE UNCHANGED questions
    /\ SetQd(s, [qd[s] EXCEPT !.view = FALSE])
    /\ Did("incrementViewCount", s, ToString(qd[s].id),
           IF ok THEN "done" ELSE "error")
    /\ UNCHANGED <<answers, storeRes, asked, storeChat, pages, storeGroups,
                   storeAwards, cg, views>>

\* fetchAnswers: the answers of the question with their upvotes (an error
\* leaves the list as it was)
fetchAnswers(s, ok) ==
    /\ qd[s].list
    /\ qd[s].id \in DOMAIN questions
    /\ SetQd(s, [qd[s] EXCEPT
                   !.list = FALSE,
                   !.upvotes = IF ok
                               THEN [a \in AnswersOf(qd[s].id) |->
                                       answers[a].upvotes]
                               ELSE qd[s].upvotes])
    /\ UNCHANGED <<storeQA, storeRes, asked, storeChat, pages, storeGroups,
                   storeAwards, cg, last, views>>

\* upvoteAnswer(answerId) on an answer of the fetched list: update answers
\* set upvotes = (the listed value) + 1 where id = answerId; an error goes to
\* the console, otherwise the list is fetched again
upvoteAnswer(s, a, ok) ==
    /\ SessionUser[s] # NoUser
    /\ a \in DOMAIN qd[s].upvotes
    /\ qd[s].upvotes[a] < MaxUpvotes
    /\ IF ok
       THEN /\ answers' = [b \in DOMAIN answers |->
                  IF b = a /\ PolicyUpdateAnswers(SessionUser[s], answers[b])
                  THEN [answers[b] EXCEPT !.upvotes = qd[s].upvotes[a] + 1]
                  ELSE answers[b]]
            /\ SetQd(s, [qd[s] EXCEPT !.list = TRUE])
            /\ Did("upvoteAnswer", s, ToString(a), "done")
       ELSE /\ UNCHANGED <<answers, qd>>
            /\ Did("upvoteAnswer", s, ToString(a), "error")
    /\ UNCHANGED <<questions, storeRes, asked, storeChat, pages, storeGroups,
                   storeAwards, cg, views>>

\* ------------------------------------------------- GroupDetail page state
\* no GroupDetail mounted: id is the :id of the route (0: none), list the
\* messages state (the ids of its rows), snap the progress of fetchMessages
\* ("none", "asked": the select has not run yet, "got": its rows are in data
\* and setMessages has not run yet), joining the groups a channel of this
\* component is subscribing to, subs the groups a channel of it is joined on,
\* pending the inserted rows whose callback awaits its profile lookup, stale
\* the groups on which a channel of an unmounted component is still open;
\* since is the number of messages stored when the page opened: history
NoPage == [id |-> 0, list |-> <<>>, snap |-> "none", data |-> <<>>,
           joining |-> {}, subs |-> {}, pending |-> {}, stale |-> {},
           since |-> 0]

\* ------------------------------------------- ai-suggestions: no request
\* req the request served last, sent the prompts it made the function send
\* upstream, reply what the upstream answered, out the responses returned
NoRequest == [method |-> "", parses |-> FALSE, type |-> "", content |-> "",
              subject |-> ""]
NoReply == [kind |-> "none", status |-> 0, choices |-> <<>>, error |-> ""]
NoCall == [req |-> NoRequest, sent |-> <<>>, reply |-> NoReply, out |-> <<>>]

\* ------------------------------------------- Profile page: none rendered
NoProgress == [by |-> "", badge |-> "", stat |-> 0, points |-> 0,
               current |-> 0, scaled |-> 0]

\* ------------------------------------------------------------ initial
\* the tables as the migrations leave them, the registered users' profiles
\* (handle_new_user), and the given browser tabs with no page mounted
InitWith(tabs) ==
    /\ questions = <<>>
    /\ answers = <<>>
    /\ resources = <<>>
    /\ study_groups = <<>>
    /\ group_members = <<>>
    /\ user_badges = <<>>
    /\ notifications = <<>>
    /\ profiles = [u \in Users |-> [points |-> 0]]
    /\ qd = [s \in tabs |-> Unmounted]
    /\ cg = [u \in Users |-> [pc |-> "idle", group |-> 0]]
    /\ messages = <<>>
    /\ rs = [s \in tabs |-> [fetching |-> FALSE, list |-> <<>>]]
    /\ got = [by |-> "", from |-> "", key |-> 0, rows |-> <<>>]
    /\ asked = <<>>
    /\ gd = [u \in Users |-> NoPage]
    /\ px = NoCall
    /\ pf = NoProgress
    /\ last = [op |-> "", by |-> "", arg |-> "", res |-> ""]

Init == InitWith({})

\* ------------------------------------------------- badges and counts
\* "Insert some default badges"
Badges ==
    [n \in {"First Question", "Helpful Helper", "Problem Solver",
            "Knowledge Sharer", "Rising Star", "Study Master",
            "Question Guru", "Answer Machine", "Expert", "Resource Hero"} |->
       CASE n = "First Question"   -> [requirement_type |-> "questions_asked",  requirement_value |-> 1]
         [] n = "Helpful Helper"   -> [requirement_type |-> "answers_given",    requirement_value |-> 1]
         [] n = "Problem Solver"   -> [requirement_type |-> "answers_accepted", requirement_value |-> 1]
         [] n = "Knowledge Sharer" -> [requirement_type |-> "resources_shared", requirement_value |-> 1]
         [] n = "Rising Star"      -> [requirement_type |-> "points",           requirement_value |-> 100]
         [] n = "Study Master"     -> [requirement_type |-> "points",           requirement_value |-> 500]
         [] n = "Question Guru"    -> [requirement_type |-> "questions_asked",  requirement_value |-> 10]
         [] n = "Answer Machine"   -> [requirement_type |-> "answers_given",    requirement_value |-> 25]
         [] n = "Expert"           -> [requirement_type |-> "answers_accepted", requirement_value |-> 10]
         [] OTHER                  -> [requirement_type |-> "resources_shared", requirement_value |-> 5]]

BadgeNames == DOMAIN Badges

\* the four counts of fetchUserStats
UserStats(u) ==
    [questions_asked  |-> Cardinality(Rows(questions, LAMBDA r : r.user_id = u)),
     answers_given    |-> Cardinality(Rows(answers, LAMBDA r : r.user_id = u)),
     answers_accepted |-> Cardinality(Rows(answers,
                              LAMBDA r : r.user_id = u /\ r.is_accepted)),
     resources_shared |-> Cardinality(Rows(resources, LAMBDA r : r.user_id = u))]

\* the value shown against a badge's threshold on the profile page
CurrentValue(u, b) ==
    IF Badges[b].requirement_type = "points"
    THEN profiles[u].points
    ELSE UserStats(u)[Badges[b].requirement_type]

\* the rows fetchUserBadges selects for a user
HoldsBadge(u, b) ==
    \E i \in DOMAIN user_badges :
        user_badges[i].user_id = u /\ user_badges[i].badge_id = b

\* ------------------------------------------------------- Profile page
\* the point totals the profile page is rendered with
PointValues == {0, 50, 100, 150}

\* the point totals a client may send in an update of its profile
WrittenPoints == {-1, 0, 1}

\* "Users can update their own profile": USING (auth.uid() = user_id)
PolicyUpdateProfiles(uid, row_user) == uid # NoUser /\ uid = row_user

\* Profile.updateProfile from the Save button: full_name, bio, grade_level
\* and school_name of the signed-in user's row (points is not among them)
updateProfile(u, ok) ==
    /\ u \in DOMAIN profiles
    /\ UNCHANGED profiles
    /\ Did("updateProfile", u, "", IF ok THEN "done" ELSE "error")
    /\ UNCHANGED <<storeQA, storeRes, asked, storeChat, pages, storeGroups,
                   user_badges, notifications, qd, cg, views>>

\* update profiles set points = p where user_id = u, sent by client uid with
\* the public key: points is INTEGER DEFAULT 0 with no CHECK, and the update
\* policy is all that is tested
UpdateProfilePoints(uid, u, p, ok) ==
    /\ u \in DOMAIN profiles
    /\ IF ok /\ PolicyUpdateProfiles(uid, u)
       THEN profiles' = [profiles EXCEPT ![u].points = p]
       ELSE UNCHANGED profiles
    /\ Did("UpdateProfilePoints", uid, u, IF ok THEN "done" ELSE "error")
    /\ UNCHANGED <<storeQA, storeRes, asked, storeChat, pages, storeGroups,
                   user_badges, notifications, qd, cg, views>>

\* a || b of JavaScript on numbers (undefined is given as 0: both are falsy)
OrElse(a, b) == IF a # 0 THEN a ELSE b

Min(a, b) == IF a <= b THEN a ELSE b

\* userStats[badge.requirement_type]: undefined for 'points'
StatOf(u, b) ==
    IF Badges[b].requirement_type = "points"
    THEN 0
    ELSE UserStats(u)[Badges[b].requirement_type]

\* getProgressToNextBadge, times requirement_value (so that it stays whole):
\* Math.min((currentValue / requirement_value) * 100, 100)
getProgressToNextBadge(u, b) ==
    LET currentValue == OrElse(StatOf(u, b), OrElse(profiles[u].points, 0))
    IN  Min(currentValue * 100, 100 * Badges[b].requirement_value)

\* allBadges (ordered by requirement_value) without the earned ones,
\* .slice(0, 5): b is among them under some order of equal values
InBadgeProgress(u, b) ==
    /\ ~HoldsBadge(u, b)
    /\ Cardinality({c \in BadgeNames :
                       /\ ~HoldsBadge(u, c)
                       /\ Badges[c].requirement_value
                            < Badges[b].requirement_value}) < 5

\* the Badge Progress card renders the row of badge b on u's profile page
renderBadgeProgress(u, b) ==
    /\ u \in DOMAIN profiles
    /\ InBadgeProgress(u, b)
    /\ pf' = [by |-> u, badge |-> b, stat |-> StatOf(u, b),
              points |-> profiles[u].points,
              current |-> CurrentValue(u, b),
              scaled |-> getProgressToNextBadge(u, b)]
    /\ UNCHANGED <<storeQA, storeRes, asked, storeChat, pages, storeGroups,
                   storeAwards, qd, cg, gd, px, last>>

\* the users of the profile specification, and the tab that asks
ProfileUsers == {"u1", "u2"}
ProfileAsker == "s1"

NextProfile ==
    \/ /\ Cardinality(DOMAIN questions) < MaxQuestions
       /\ AskQuestion(ProfileAsker, DefaultForm, TRUE)
    \/ \E u \in ProfileUsers, ok \in BOOLEAN : updateProfile(u, ok)
    \/ \E uid \in ProfileUsers, u \in ProfileUsers, p \in PointValues,
          ok \in BOOLEAN : UpdateProfilePoints(uid, u, p, ok)
    \/ \E u \in ProfileUsers, b \in BadgeNames : renderBadgeProgress(u, b)

SpecProfile == InitWith({"s1"}) /\ [][NextProfile]_vars

\* the writes to profiles alone: the Save button, and updates of points sent
\* by any signed-in or signed-out client
NextPoints ==
    \/ \E u \in Users, ok \in BOOLEAN : updateProfile(u, ok)
    \/ \E uid \in Users \cup {NoUser}, u \in Users, p \in WrittenPoints,
          ok \in BOOLEAN :
          UpdateProfilePoints(uid, u, p, ok)

SpecPoints == Init /\ [][NextPoints]_vars

\* --------------------------------------------- ai-suggestions function
SuggestionTypes == {"question-improvement", "answer-hints", "study-plan"}
RequestTypes == SuggestionTypes \cup {"flashcards"}

\* the requests: a body req.json() rejects, or one it parses into
\* { type, content, subject }
Requests ==
    [method : {"OPTIONS", "POST", "PUT"}, parses : {FALSE}, type : {""},
     content : {""}, subject : {""}]
    \cup [method : {"OPTIONS", "POST", "PUT"}, parses : {TRUE},
          type : RequestTypes, content : {"", "What is inertia?"},
          subject : {"", "Physics"}]

\* what message.content of the first choice may be: the JSON the prompt
\* asks for, JSON that is no object, and prose
ObjectText == "{\"hints\":[\"a\",\"b\",\"c\"]}"
NumberText == "42"
NullText == "null"
ProseText == "Start from Newton's first law."
Completions == {ObjectText, NumberText, NullText, ProseText}

SyntaxErrorMessage == "Unexpected token in JSON"
TypeErrorMessage == "Cannot read properties of undefined (reading '0')"
InvalidType == "Invalid suggestion type"

\* what the fetch of the completions endpoint may bring: a rejected promise,
\* a body that is not JSON, an error object with its HTTP status, or a
\* completion with its choices
Replies ==
    {[kind |-> "throws", status |-> 0, choices |-> <<>>,
      error |-> "error sending request"],
     [kind |-> "text", status |-> 502, choices |-> <<>>, error |-> ""]}
    \cup [kind : {"json"}, status : {401, 429}, choices : {<<>>},
          error : {"Incorrect API key provided", "Rate limit reached"}]
    \cup {[kind |-> "json", status |-> 200, choices |-> <<c>>, error |-> ""] :
              c \in Completions}

\* JSON.parse of a completion: a value with its type, or a SyntaxError
JSONparse(text) ==
    CASE text = ObjectText -> [threw |-> FALSE, type |-> "object", of |-> text]
      [] text = NumberText -> [threw |-> FALSE, type |-> "number", of |-> text]
      [] text = NullText -> [threw |-> FALSE, type |-> "null", of |-> text]
      [] OTHER -> [threw |-> TRUE, type |-> "", of |-> text]

\* the prompt of a request: its type's template with content and
\* subject || 'General'
Prompt(req) == <<req.type, req.content,
                 IF req.subject = "" THEN "General" ELSE req.subject>>

Preflight == [status |-> 200, empty |-> TRUE, success |-> "", type |-> "",
              of |-> "", error |-> ""]
Succeeded(type, text) ==
    [status |-> 200, empty |-> FALSE, success |-> "true", type |-> type,
     of |-> text, error |-> ""]
Failed(message) ==
    [status |-> 500, empty |-> FALSE, success |-> "false", type |-> "",
     of |-> "", error |-> message]

\* the try block from the fetch on: data.choices[0].message.content, then
\* JSON.parse with { content: suggestion } when it throws
Completed(reply) ==
    IF reply.kind = "throws" THEN Failed(reply.error)
    ELSE IF reply.kind = "text" THEN Failed(SyntaxErrorMessage)
    ELSE IF reply.choices = <<>> THEN Failed(TypeErrorMessage)
    ELSE LET suggestion == reply.choices[1]
             parsed == JSONparse(suggestion)
         IN  IF parsed.threw THEN Succeeded("content", suggestion)
             ELSE Succeeded(parsed.type, parsed.of)

\* the handler of serve, for one request and the reply the upstream gives
\* when it is asked
serve(req, reply) ==
    /\ px' = IF req.method = "OPTIONS"
             THEN [req |-> req, sent |-> <<>>, reply |-> NoReply,
                   out |-> <<Preflight>>]
             ELSE IF ~req.parses
             THEN [req |-> req, sent |-> <<>>, reply |-> NoReply,
                   out |-> <<Failed(SyntaxErrorMessage)>>]
             ELSE IF req.type \notin SuggestionTypes
             THEN [req |-> req, sent |-> <<>>, reply |-> NoReply,
                   out |-> <<Failed(InvalidType)>>]
             ELSE [req |-> req, sent |-> <<Prompt(req)>>, reply |-> reply,
                   out |-> <<Completed(reply)>>]
    /\ UNCHANGED <<storeQA, storeRes, storeGroups, storeAwards, storeChat,
                   pages, qd, cg, asked, gd, pf, last>>

NextProxy == \E req \in Requests, reply \in Replies : serve(req, reply)

SpecProxy == Init /\ [][NextProxy]_vars

\* ---------------------------------- questions and answers: specification
Tabs == DOMAIN qd

NextQA ==
    \/ \E s \in Tabs, ok \in BOOLEAN :
          /\ Cardinality(DOMAIN questions) < MaxQuestions
          /\ AskQuestion(s, DefaultForm, ok)
    \/ \E s \in Tabs, id \in 1..MaxQuestions : OpenQuestion(s, id)
    \/ \E s \in Tabs, ok \in BOOLEAN : fetchQuestion(s, ok)
    \/ \E s \in Tabs, ok \in BOOLEAN : submitAnswer(s, "a1", ok)
    \/ \E s \in Tabs, a \in 1..MaxAnswers : acceptAnswer(s, a)
    \/ \E s \in Tabs, ok \in BOOLEAN : accept_clear(s, ok)
    \/ \E s \in Tabs, ok \in BOOLEAN : accept_set(s, ok)
    \/ \E s \in Tabs, ok \in BOOLEAN : accept_resolve(s, ok)
    \/ \E s \in Tabs, ok \in BOOLEAN : accept_refresh(s, ok)

\* two tabs of one user and a tab of another
InitQA == InitWith({"s1", "s2", "s3"})

SpecQA == InitQA /\ [][NextQA]_vars

\* two tabs open: of two users, or of a user and a signed-out visitor
InitVisitors == \E tabs \in {{"s1", "s3"}, {"s3", "s4"}} : InitWith(tabs)

SpecVisitors == InitVisitors /\ [][NextQA]_vars

\* ------------------------------------------------ views: specification
\* the questions of the counter specification (a route change needs two)
MaxViewedQuestions == 2

\* the tab that asks the questions of the counter specification
ViewAsker == "s1"

\* a failed insert leaves every variable as it was, so only the successful
\* outcome of asking is a step here
NextViews ==
    \/ /\ Cardinality(DOMAIN questions) < MaxViewedQuestions
       /\ AskQuestion(ViewAsker, DefaultForm, TRUE)
    \/ \E s \in Tabs, id \in 1..MaxViewedQuestions : OpenQuestion(s, id)
    \/ \E s \in Tabs, id \in 1..MaxViewedQuestions : ChangeQuestion(s, id)
    \/ \E s \in Tabs, ok \in BOOLEAN : fetchQuestion(s, ok)
    \/ \E s \in Tabs, ok \in BOOLEAN : incrementViewCount(s, ok)

\* a tab of the asker and a tab of another user
InitViews == InitWith({"s1", "s3"})

SpecViews == InitViews /\ [][NextViews]_vars

\* --------------------------------- content and counters: specification
\* what is typed into the ask form and into the answer box
QuestionForms == {[title |-> "t1", content |-> "c1", difficulty |-> "easy"],
                  [title |-> "t2", content |-> "c2", difficulty |-> "hard"]}
AnswerTexts == {"a1", "a2"}

\* the tab that asks the questions of the content specification, and the
\* tab that answers them
ContentAsker == "s1"
ContentAnswerer == "s3"

\* a failed insert leaves every variable as it was, so only the successful
\* outcome of asking and of answering is a step here
NextContent ==
    \/ \E form \in QuestionForms :
          /\ Cardinality(DOMAIN questions) < MaxQuestions
          /\ AskQuestion(ContentAsker, form, TRUE)
    \/ \E s \in Tabs, id \in 1..MaxQuestions : OpenQuestion(s, id)
    \/ \E s \in Tabs, ok \in BOOLEAN : fetchQuestion(s, ok)
    \/ \E s \in Tabs, ok \in BOOLEAN : incrementViewCount(s, ok)
    \/ \E text \in AnswerTexts : submitAnswer(ContentAnswerer, text, TRUE)

\* a tab of one user and a tab of another
InitContent == InitWith({"s1", "s3"})

SpecContent == InitContent /\ [][NextContent]_vars

\* ---------------------------------------------- counters: specification
\* the tab that asks the question of the counter specification
CounterAsker == "s1"

\* a failed insert leaves every variable as it was, so only the successful
\* outcome of asking and of answering is a step here
NextCounters ==
    \/ /\ Cardinality(DOMAIN questions) < MaxQuestions
       /\ AskQuestion(CounterAsker, DefaultForm, TRUE)
    \/ \E s \in Tabs, id \in 1..MaxQuestions : OpenQuestion(s, id)
    \/ \E s \in Tabs, ok \in BOOLEAN : fetchQuestion(s, ok)
    \/ \E s \in Tabs, ok \in BOOLEAN : incrementViewCount(s, ok)
    \/ \E s \in Tabs : submitAnswer(s, "a1", TRUE)
    \/ \E s \in Tabs, ok \in BOOLEAN : fetchAnswers(s, ok)
    \/ \E s \in Tabs, a \in 1..MaxAnswers, ok \in BOOLEAN : upvoteAnswer(s, a, ok)

SpecCounters == InitViews /\ [][NextCounters]_vars

\* ------------------------------------------ route changes: specification
\* the tab whose page goes from one question to another while mounted
RouteVisitor == "s3"

\* two users ask a question each; the visitor answers, moves between the
\* question pages and clicks Accept on an answer its page lists (the list
\* of the current :id, once its fetchAnswers has returned)
NextRoute ==
    \/ \E s \in Tabs :
          /\ Cardinality(DOMAIN questions) < MaxViewedQuestions
          /\ AskQuestion(s, DefaultForm, TRUE)
    \/ \E id \in 1..MaxViewedQuestions : OpenQuestion(RouteVisitor, id)
    \/ \E id \in 1..MaxViewedQuestions : ChangeQuestion(RouteVisitor, id)
    \/ \E ok \in BOOLEAN : fetchQuestion(RouteVisitor, ok)
    \/ \E ok \in BOOLEAN : fetchAnswers(RouteVisitor, ok)
    \/ submitAnswer(RouteVisitor, "a1", TRUE)
    \/ \E a \in 1..MaxAnswers :
          /\ ~qd[RouteVisitor].list
          /\ acceptAnswer(RouteVisitor, a)
    \/ \E ok \in BOOLEAN : accept_clear(RouteVisitor, ok)
    \/ \E ok \in BOOLEAN : accept_set(RouteVisitor, ok)
    \/ \E ok \in BOOLEAN : accept_resolve(RouteVisitor, ok)
    \/ \E ok \in BOOLEAN : accept_refresh(RouteVisitor, ok)

SpecRoute == InitWith({"s1", "s3"}) /\ [][NextRoute]_vars

\* ---------------------------------------------------------- resources
MaxResources == 1
MaxDownloads == 2

\* "Users can upload resources": WITH CHECK (auth.uid() = user_id)
PolicyInsertResources(uid, row) == uid # NoUser /\ uid = row.user_id

\* "Users can update their own resources": USING (auth.uid() = user_id)
PolicyUpdateResources(uid, row) == uid # NoUser /\ uid = row.user_id

\* the Resources page is mounted: an empty list, and fetchResources called
OpenResources(s) ==
    /\ rs' = [rs EXCEPT ![s] = [fetching |-> TRUE, list |-> <<>>]]
    /\ UNCHANGED <<storeQA, storeRes, asked, storeChat, got, storeGroups,
                   storeAwards, qd, cg, last, views>>

\* fetchResources: the resources with their download_count (an error leaves
\* the list as it was)
fetchResources(s, ok) ==
    /\ rs[s].fetching
    /\ rs' = [rs EXCEPT ![s] =
                [fetching |-> FALSE,
                 list |-> IF ok
                          THEN [r \in DOMAIN resources |->
                                  resources[r].download_count]
                          ELSE rs[s].list]]
    /\ UNCHANGED <<storeQA, storeRes, asked, storeChat, got, storeGroups,
                   storeAwards, qd, cg, last, views>>

\* handleUploadSubmit: insert the resource of the signed-in user (the column
\* download_count takes its default), then fetchResources
handleUploadSubmit(s, ok) ==
    /\ SessionUser[s] # NoUser
    /\ Cardinality(DOMAIN resources) < MaxResources
    /\ LET row == [user_id |-> SessionUser[s], download_count |-> 0]
       IN  IF ok /\ PolicyInsertResources(SessionUser[s], row)
           THEN /\ resources' = Insert(resources, row)
                /\ rs' = [rs EXCEPT ![s].fetching = TRUE]
           ELSE UNCHANGED <<resources, rs>>
    /\ UNCHANGED <<storeQA, asked, storeChat, got, storeGroups, storeAwards,
                   qd, cg, last, views>>

\* downloadResource on a resource of the fetched list: update resources set
\* download_count = (the listed value) + 1 where id = resourceId (the result
\* is not looked at), then fetchResources
downloadResource(s, r, ok) ==
    /\ r \in DOMAIN rs[s].list
    /\ rs[s].list[r] < MaxDownloads
    /\ IF ok /\ PolicyUpdateResources(SessionUser[s], resources[r])
       THEN resources' = [resources EXCEPT
                            ![r].download_count = rs[s].list[r] + 1]
       ELSE UNCHANGED resources
    /\ rs' = [rs EXCEPT ![s].fetching = TRUE]
    /\ UNCHANGED <<storeQA, asked, storeChat, got, storeGroups, storeAwards,
                   qd, cg, last, views>>

NextResources ==
    \/ \E s \in Tabs : OpenResources(s)
    \/ \E s \in Tabs, ok \in BOOLEAN : fetchResources(s, ok)
    \/ \E s \in Tabs, ok \in BOOLEAN : handleUploadSubmit(s, ok)
    \/ \E s \in Tabs, r \in 1..MaxResources, ok \in BOOLEAN :
          downloadResource(s, r, ok)

\* two tabs of one user, a tab of another and a signed-out tab
InitResources == InitWith(Sessions)

SpecResources == InitResources /\ [][NextResources]_vars

\* ------------------------------------------------------ study groups
Actors == Users \cup {NoUser}

\* the two choices of the privacy select of the create-group form
FormPrivacy == {"public", "private"}

\* values typed into the max-members field (min 2 on the input)
FormMaxMembers == {2, 3}

\* the policy with its USING clause dropped
PolicySelectStudyGroups_all(uid, row) == TRUE

\* "Public groups are viewable by everyone":
\* USING (privacy = 'public' OR creator_id = auth.uid())
PolicySelectStudyGroups(uid, row) ==
    row.privacy = "public" \/ (uid # NoUser /\ row.creator_id = uid)

\* "Users can create study groups": WITH CHECK (auth.uid() = creator_id)
PolicyInsertStudyGroups(uid, row) == uid # NoUser /\ uid = row.creator_id

\* "Users can join groups": WITH CHECK (auth.uid() = user_id)
PolicyInsertGroupMembers(uid, row) == uid # NoUser /\ uid = row.user_id

\* group_members: UNIQUE(group_id, user_id)
UniqueGroupMembers(row) ==
    \A i \in DOMAIN group_members :
        ~(group_members[i].group_id = row.group_id
            /\ group_members[i].user_id = row.user_id)

MembersOf(g) == Rows(group_members, LAMBDA r : r.group_id = g)

\* CreateGroup.handleSubmit up to its first await: insert the group row
createGroup_insert(u, privacy, max_members, ok) ==
    /\ u # NoUser
    /\ cg[u].pc = "idle"
    /\ LET row == [creator_id |-> u, privacy |-> privacy,
                   max_members |-> max_members]
       IN  IF ok /\ PolicyInsertStudyGroups(u, row)
           THEN /\ study_groups' = Insert(study_groups, row)
                /\ cg' = [cg EXCEPT ![u] = [pc |-> "member",
                                            group |-> FreshId(study_groups)]]
           ELSE UNCHANGED <<study_groups, cg>>
    /\ UNCHANGED <<storeQA, storeRes, asked, storeChat, pages, group_members, storeAwards, qd, last, views>>

\* a submit of the form, only while the table holds fewer than cap groups
CreateWithin(cap, u, privacy, max_members, ok) ==
    /\ Cardinality(DOMAIN study_groups) < cap
    /\ createGroup_insert(u, privacy, max_members, ok)

\* CreateGroup.handleSubmit, second await: add the creator as admin member
createGroup_member(u, ok) ==
    /\ cg[u].pc = "member"
    /\ LET row == [group_id |-> cg[u].group, user_id |-> u, role |-> "admin"]
       IN  IF ok /\ PolicyInsertGroupMembers(u, row) /\ UniqueGroupMembers(row)
           THEN group_members' = Insert(group_members, row)
           ELSE UNCHANGED group_members
    /\ cg' = [cg EXCEPT ![u] = [pc |-> "idle", group |-> 0]]
    /\ UNCHANGED <<storeQA, storeRes, asked, storeChat, pages, study_groups, storeAwards, qd, last, views>>

\* StudyGroups.joinGroup on a group of the fetched list
joinGroup(u, g, ok) ==
    /\ g \in DOMAIN study_groups
    /\ PolicySelectStudyGroups(u, study_groups[g])
    /\ IF u = NoUser
       THEN UNCHANGED group_members
       ELSE LET row == [group_id |-> g, user_id |-> u, role |-> "member"]
            IN  IF /\ ok
                   /\ PolicyInsertGroupMembers(u, row)
                   /\ UniqueGroupMembers(row)
                THEN group_members' = Insert(group_members, row)
                ELSE UNCHANGED group_members
    /\ UNCHANGED <<storeQA, storeRes, asked, storeChat, pages, study_groups, storeAwards, qd, cg, last, views>>

NextGroups ==
    \/ \E u \in Actors, p \in FormPrivacy, m \in FormMaxMembers, ok \in BOOLEAN :
          CreateWithin(MaxGroups, u, p, m, ok)
    \/ \E u \in Users, ok \in BOOLEAN : createGroup_member(u, ok)
    \/ \E u \in Actors, g \in 1..MaxGroups, ok \in BOOLEAN : joinGroup(u, g, ok)

SpecGroups == Init /\ [][NextGroups]_vars

\* the rows of study_groups a select by uid returns
VisibleGroups(uid) ==
    {g \in DOMAIN study_groups : PolicySelectStudyGroups(uid, study_groups[g])}

\* StudyGroups.fetchGroups: select * from study_groups order by created_at
\* descending (an error leaves the list as it was)
fetchGroups(u) ==
    /\ Select(u, "study_groups", 0, Descending(VisibleGroups(u)))
    /\ UNCHANGED <<storeQA, storeRes, asked, storeChat, rs, storeGroups, storeAwards,
                   qd, cg, last, views>>

\* GroupDetail.fetchGroupDetails: select ... from study_groups where
\* id = :id, .single() (no row is an error and the group stays null)
fetchGroupDetails(u, g) ==
    /\ g \in DOMAIN study_groups
    /\ Select(u, "study_groups", g, Ascending(VisibleGroups(u) \cap {g}))
    /\ UNCHANGED <<storeQA, storeRes, asked, storeChat, rs, storeGroups, storeAwards,
                   qd, cg, last, views>>

\* insert into group_members by a signed-in client that knows the id of the
\* group: the only check is "Users can join groups"
InsertGroupMember(u, g, ok) ==
    /\ u # NoUser
    /\ g \in DOMAIN study_groups
    /\ LET row == [group_id |-> g, user_id |-> u, role |-> "member"]
       IN  IF /\ ok
              /\ PolicyInsertGroupMembers(u, row)
              /\ UniqueGroupMembers(row)
           THEN group_members' = Insert(group_members, row)
           ELSE UNCHANGED group_members
    /\ UNCHANGED <<storeQA, storeRes, asked, storeChat, pages, study_groups, storeAwards,
                   qd, cg, last, views>>

\* the clients of the read specification: two users and a signed-out visitor
ReadUsers == {"u1", "u2"}
ReadActors == ReadUsers \cup {NoUser}

NextGroupReads ==
    \/ \E u \in ReadActors, p \in FormPrivacy, ok \in BOOLEAN :
          CreateWithin(MaxGroups, u, p, 2, ok)
    \/ \E u \in ReadUsers, ok \in BOOLEAN : createGroup_member(u, ok)
    \/ \E u \in ReadActors, g \in 1..MaxGroups, ok \in BOOLEAN :
          joinGroup(u, g, ok)
    \/ \E u \in ReadActors : fetchGroups(u)
    \/ \E u \in ReadActors, g \in 1..MaxGroups : fetchGroupDetails(u, g)
    \/ \E u \in ReadUsers, g \in 1..MaxGroups, ok \in BOOLEAN :
          InsertGroupMember(u, g, ok)

SpecGroupReads == Init /\ [][NextGroupReads]_vars

\* ---------------------------------------------------------- group chat
MaxMessages == 1

\* .limit(50) of fetchMessages
FetchLimit == 50

\* EXISTS (SELECT 1 FROM group_members gm WHERE gm.group_id = messages.group_id
\*         AND gm.user_id = auth.uid())
IsGroupMember(uid, g) ==
    \E i \in DOMAIN group_members :
        group_members[i].group_id = g /\ group_members[i].user_id = uid

\* "Group members can view messages"
PolicySelectMessages(uid, row) == IsGroupMember(uid, row.group_id)

\* the insert policy without its EXISTS clause
PolicyInsertMessages_own(uid, row) == uid # NoUser /\ uid = row.user_id

\* "Group members can create messages"
PolicyInsertMessages(uid, row) ==
    uid # NoUser /\ uid = row.user_id /\ IsGroupMember(uid, row.group_id)

\* the rows of a group's messages a select by uid returns
VisibleMessages(uid, g) ==
    {m \in DOMAIN messages :
        messages[m].group_id = g /\ PolicySelectMessages(uid, messages[m])}

\* the text of the form, trimmed (a blank text returns at the first line)
NewMessage == "hi"

\* realtime: the inserted row m is handed to every channel of its group whose
\* client may select it, and the callback of each starts its profile lookup
Pushed(m, row) ==
    [v \in DOMAIN gd |->
        IF row.group_id \in gd[v].subs /\ PolicySelectMessages(v, row)
        THEN [gd[v] EXCEPT !.pending = @ \cup {m}]
        ELSE gd[v]]

\* GroupDetail.sendMessage, from the form of a group page that has loaded;
\* a signed-out visitor's submit returns at the first line
sendMessage(u, g, ok) ==
    /\ u # NoUser
    /\ g \in DOMAIN study_groups
    /\ PolicySelectStudyGroups(u, study_groups[g])
    /\ LET row == [group_id |-> g, user_id |-> u, content |-> NewMessage]
       IN  IF ~ok
           THEN /\ UNCHANGED <<messages, gd>>
                /\ Did("sendMessage", u, ToString(g), "error")
           ELSE IF PolicyInsertMessages(u, row)
           THEN /\ messages' = Insert(messages, row)
                /\ gd' = Pushed(FreshId(messages), row)
                /\ Did("sendMessage", u, ToString(g), "ok")
           ELSE /\ UNCHANGED <<messages, gd>>
                /\ Did("sendMessage", u, ToString(g), "denied")
    /\ UNCHANGED <<storeQA, storeRes, asked, pages, storeGroups, storeAwards,
                   qd, cg, px, pf>>

\* GroupDetail.fetchMessages: the group's messages ordered by created_at
\* ascending, limit 50 (an error leaves the list as it was)
fetchMessages(u, g) ==
    /\ g \in DOMAIN study_groups
    /\ Select(u, "messages", g,
              Limit(Ascending(VisibleMessages(u, g)), FetchLimit))
    /\ UNCHANGED <<storeQA, storeRes, asked, storeChat, rs, storeGroups, storeAwards,
                   qd, cg, last, views>>

\* the INSERT callback of subscribeToMessages: realtime hands a new row of
\* the group to a subscriber the select policy lets read it
onMessageInsert(u, g, m) ==
    /\ g \in DOMAIN study_groups
    /\ m \in VisibleMessages(u, g)
    /\ Select(u, "messages", g, <<m>>)
    /\ UNCHANGED <<storeQA, storeRes, asked, storeChat, rs, storeGroups, storeAwards,
                   qd, cg, last, views>>

\* the user who creates the groups of the chat specification
ChatCreator == "u1"

\* a send that stores a row, only while the table holds fewer than cap rows
SendWithin(cap, u, g, ok) ==
    /\ (ok /\ PolicyInsertMessages(u, [group_id |-> g, user_id |-> u]))
          => Cardinality(DOMAIN messages) < cap
    /\ sendMessage(u, g, ok)

\* a failed insert of a group or of a join leaves every variable as it was,
\* so only their successful outcomes are steps here
NextChat ==
    \/ \E p \in FormPrivacy : CreateWithin(MaxGroups, ChatCreator, p, 2, TRUE)
    \/ \E ok \in BOOLEAN : createGroup_member(ChatCreator, ok)
    \/ \E u \in ReadUsers, g \in 1..MaxGroups : joinGroup(u, g, TRUE)
    \/ \E u \in ReadUsers, g \in 1..MaxGroups, ok \in BOOLEAN :
          SendWithin(MaxMessages, u, g, ok)
    \/ \E u \in ReadActors, g \in 1..MaxGroups : fetchMessages(u, g)
    \/ \E u \in ReadActors, g \in 1..MaxGroups, m \in 1..MaxMessages :
          onMessageInsert(u, g, m)

SpecChat == Init /\ [][NextChat]_vars

\* one more message than a load returns
MaxLoadMessages == 51

\* the group whose chat fills up
LoadGroup == 1

\* a long chat: the creator of a group sends message after message to it and
\* opens its page
NextChatLoad ==
    \/ \E p \in FormPrivacy : CreateWithin(MaxGroups, ChatCreator, p, 2, TRUE)
    \/ createGroup_member(ChatCreator, TRUE)
    \/ SendWithin(MaxLoadMessages, ChatCreator, LoadGroup, TRUE)
    \/ fetchMessages(ChatCreator, LoadGroup)

SpecChatLoad == Init /\ [][NextChatLoad]_vars

\* ------------------------------------------------- GroupDetail page
MaxPageGroups == 2
MaxPageMessages == 2

\* the useEffect on [id], run for a component mounted on /groups/g: the
\* fetches start and subscribeToMessages opens a channel on the inserts of g
OpenGroup(u, g) ==
    /\ gd[u].id = 0
    /\ g \in DOMAIN study_groups
    /\ gd' = [gd EXCEPT ![u] = [@ EXCEPT !.id = g, !.list = <<>>,
                                         !.snap = "asked", !.data = <<>>,
                                         !.joining = {g},
                                         !.since = Cardinality(DOMAIN messages)]]
    /\ UNCHANGED <<storeQA, storeRes, storeGroups, storeAwards, storeChat,
                   pages, qd, cg, asked, px, pf, last>>

\* the same effect run again for a mounted component whose :id changes in
\* place (a history jump between two group pages), once the load of the
\* page has finished: the state stays, the value subscribeToMessages
\* returned at the former run was dropped, so no channel is removed
ChangeGroup(u, g) ==
    /\ gd[u].id # 0
    /\ gd[u].id # g
    /\ gd[u].snap = "none"
    /\ g \in DOMAIN study_groups
    /\ gd' = [gd EXCEPT ![u] = [@ EXCEPT !.id = g, !.snap = "asked",
                                         !.joining = @ \cup {g},
                                         !.since = Cardinality(DOMAIN messages)]]
    /\ UNCHANGED <<storeQA, storeRes, storeGroups, storeAwards, storeChat,
                   pages, qd, cg, asked, px, pf, last>>

\* the route leaves /groups/:id: the component unmounts, its state is gone
\* and its callbacks set nothing any more; the effect has no cleanup, so
\* its channels stay open
LeaveGroup(u) ==
    /\ gd[u].id # 0
    /\ gd' = [gd EXCEPT ![u] =
                 [NoPage EXCEPT !.stale = gd[u].stale \cup gd[u].joining
                                             \cup gd[u].subs]]
    /\ UNCHANGED <<storeQA, storeRes, storeGroups, storeAwards, storeChat,
                   pages, qd, cg, asked, px, pf, last>>

\* .subscribe() of subscribeToMessages is acknowledged: from now on the
\* inserts of g are pushed to this client
channelJoined(u, g) ==
    /\ g \in gd[u].joining
    /\ gd' = [gd EXCEPT ![u] = [@ EXCEPT !.joining = @ \ {g},
                                         !.subs = @ \cup {g}]]
    /\ UNCHANGED <<storeQA, storeRes, storeGroups, storeAwards, storeChat,
                   pages, qd, cg, asked, px, pf, last>>

\* fetchMessages, first await: the select of the group's messages
\* (an error is thrown to the catch, which sets nothing)
fetchMessages_select(u, ok) ==
    /\ gd[u].id # 0
    /\ gd[u].snap = "asked"
    /\ gd' = [gd EXCEPT ![u] =
                 IF ok
                 THEN [@ EXCEPT !.snap = "got",
                                !.data = Limit(Ascending(
                                             VisibleMessages(u, gd[u].id)),
                                             FetchLimit)]
                 ELSE [@ EXCEPT !.snap = "none"]]
    /\ UNCHANGED <<storeQA, storeRes, storeGroups, storeAwards, storeChat,
                   pages, qd, cg, asked, px, pf, last>>

\* fetchMessages, second await (the profiles of the senders) and
\* setMessages(messagesWithProfiles)
fetchMessages_set(u, ok) ==
    /\ gd[u].id # 0
    /\ gd[u].snap = "got"
    /\ gd' = [gd EXCEPT ![u] =
                 IF ok
                 THEN [@ EXCEPT !.snap = "none", !.list = gd[u].data,
                                !.data = <<>>]
                 ELSE [@ EXCEPT !.snap = "none", !.data = <<>>]]
    /\ UNCHANGED <<storeQA, storeRes, storeGroups, storeAwards, storeChat,
                   pages, qd, cg, asked, px, pf, last>>

\* the INSERT callback of subscribeToMessages after its await: the profile
\* lookup of row m has answered, setMessages(prev => [...prev, m]); an
\* error of the lookup returns without the message
onInsert_append(u, m, ok) ==
    /\ gd[u].id # 0
    /\ m \in gd[u].pending
    /\ gd' = [gd EXCEPT ![u] =
                 IF ok
                 THEN [@ EXCEPT !.pending = @ \ {m},
                                !.list = Append(@, m)]
                 ELSE [@ EXCEPT !.pending = @ \ {m}]]
    /\ UNCHANGED <<storeQA, storeRes, storeGroups, storeAwards, storeChat,
                   pages, qd, cg, asked, px, pf, last>>

\* the creator of two public groups moves between their pages while
\* messages are sent to them; every select and every lookup succeeds
NextPage ==
    \/ CreateWithin(MaxPageGroups, ChatCreator, "public", 2, TRUE)
    \/ createGroup_member(ChatCreator, TRUE)
    \/ \E g \in 1..MaxPageGroups : OpenGroup(ChatCreator, g)
    \/ \E g \in 1..MaxPageGroups : ChangeGroup(ChatCreator, g)
    \/ LeaveGroup(ChatCreator)
    \/ \E g \in 1..MaxPageGroups : channelJoined(ChatCreator, g)
    \/ fetchMessages_select(ChatCreator, TRUE)
    \/ fetchMessages_set(ChatCreator, TRUE)
    \/ \E m \in 1..MaxPageMessages : onInsert_append(ChatCreator, m, TRUE)
    \/ \E g \in 1..MaxPageGroups :
          SendWithin(MaxPageMessages, ChatCreator, g, TRUE)

SpecPage == Init /\ [][NextPage]_vars

\* ------------------------------------------------------- user deletion
Restrict(t, D) == [i \in D |-> t[i]]

\* user_id UUID NOT NULL REFERENCES auth.users(id) ON DELETE CASCADE
CascadeQuestions(u) == Rows(questions, LAMBDA r : r.user_id = u)

\* user_id and question_id both reference with ON DELETE CASCADE
CascadeAnswers(u) ==
    Rows(answers, LAMBDA r : r.user_id = u \/ r.question_id \in CascadeQuestions(u))

CascadeResources(u) == Rows(resources, LAMBDA r : r.user_id = u)

\* creator_id UUID NOT NULL REFERENCES auth.users(id) ON DELETE CASCADE
CascadeGroups(u) == Rows(study_groups, LAMBDA r : r.creator_id = u)

\* user_id and group_id both reference with ON DELETE CASCADE
CascadeMembers(u) ==
    Rows(group_members, LAMBDA r : r.user_id = u \/ r.group_id \in CascadeGroups(u))

\* messages as they would go if user_id referenced auth.users
CascadeMessages_fk(u) == Rows(messages, LAMBDA r : r.user_id = u)

\* messages.user_id and messages.group_id are plain UUID columns: no
\* REFERENCES clause, so no row goes with the user or with the group
CascadeMessages(u) == {}

\* notifications.user_id is a plain UUID column
CascadeNotifications(u) == {}

\* user_badges.user_id is a plain UUID column
CascadeUserBadges(u) == {}

\* delete from auth.users where id = u (the account is removed): the rows
\* that reference it go as their foreign keys say
DeleteUser(u) ==
    /\ u \in DOMAIN profiles
    /\ profiles' = Restrict(profiles, DOMAIN profiles \ {u})
    /\ questions' = Restrict(questions, DOMAIN questions \ CascadeQuestions(u))
    /\ answers' = Restrict(answers, DOMAIN answers \ CascadeAnswers(u))
    /\ resources' = Restrict(resources, DOMAIN resources \ CascadeResources(u))
    /\ study_groups' =
          Restrict(study_groups, DOMAIN study_groups \ CascadeGroups(u))
    /\ group_members' =
          Restrict(group_members, DOMAIN group_members \ CascadeMembers(u))
    /\ messages' = Restrict(messages, DOMAIN messages \ CascadeMessages(u))
    /\ notifications' =
          Restrict(notifications, DOMAIN notifications \ CascadeNotifications(u))
    /\ user_badges' =
          Restrict(user_badges, DOMAIN user_badges \ CascadeUserBadges(u))
    /\ Did("DeleteUser", u, "", "done")
    /\ UNCHANGED <<asked, pages, qd, cg, views>>

\* row-level security is enabled on messages and no policy is written FOR
\* UPDATE or FOR DELETE: no row qualifies for either, whoever asks
PolicyUpdateMessages(uid, row) == FALSE

PolicyDeleteMessages(uid, row) == FALSE

\* update messages set content = ... where id = m, sent by a client with the
\* public key: the rows the policy lets through are changed
UpdateMessage(u, m) ==
    /\ m \in DOMAIN messages
    /\ messages' = [i \in DOMAIN messages |->
                      IF i = m /\ PolicyUpdateMessages(u, messages[i])
                      THEN [messages[i] EXCEPT !.content = "edited"]
                      ELSE messages[i]]
    /\ Did("UpdateMessage", u, ToString(m), "done")
    /\ UNCHANGED <<storeQA, storeRes, asked, pages, storeGroups, storeAwards,
                   qd, cg, views>>

\* delete from messages where id = m, sent by a client with the public key
DeleteMessage(u, m) ==
    /\ m \in DOMAIN messages
    /\ messages' = Restrict(messages,
                      {i \in DOMAIN messages :
                          ~(i = m /\ PolicyDeleteMessages(u, messages[i]))})
    /\ Did("DeleteMessage", u, ToString(m), "done")
    /\ UNCHANGED <<storeQA, storeRes, asked, pages, storeGroups, storeAwards,
                   qd, cg, views>>

\* the chat while accounts are removed; an insert that names a removed
\* account breaks its foreign key, so a removed user takes no step
NextLog ==
    \/ \E p \in FormPrivacy :
          /\ ChatCreator \in DOMAIN profiles
          /\ CreateWithin(MaxGroups, ChatCreator, p, 2, TRUE)
    \/ /\ ChatCreator \in DOMAIN profiles
       /\ createGroup_member(ChatCreator, TRUE)
    \/ \E u \in ReadUsers \cap DOMAIN profiles, g \in 1..MaxGroups :
          joinGroup(u, g, TRUE)
    \/ \E u \in ReadUsers \cap DOMAIN profiles, g \in 1..MaxGroups,
          ok \in BOOLEAN :
          SendWithin(MaxMessages, u, g, ok)
    \/ \E u \in ReadUsers \cap DOMAIN profiles, g \in 1..MaxGroups :
          fetchMessages(u, g)
    \/ \E u \in ReadUsers \cap DOMAIN profiles, m \in 1..MaxMessages :
          UpdateMessage(u, m)
    \/ \E u \in ReadUsers \cap DOMAIN profiles, m \in 1..MaxMessages :
          DeleteMessage(u, m)
    \/ \E u \in ReadUsers : DeleteUser(u)

SpecLog == Init /\ [][NextLog]_vars

\* ------------------------------------------------------ notifications
MaxNotifications == 2

\* "System can create notifications": WITH CHECK (true)
PolicyInsertNotifications(uid, row) == TRUE

\* "Users can view their own notifications": USING (auth.uid() = user_id)
PolicySelectNotifications(uid, row) == uid # NoUser /\ uid = row.user_id

\* "Users can update their own notifications": USING (auth.uid() = user_id)
PolicyUpdateNotifications(uid, row) == uid # NoUser /\ uid = row.user_id

\* insert into notifications (user_id, type, ...) by any client: no page of
\* the application does it, the insert policy is all that is checked
InsertNotification(uid, u, ok) ==
    /\ Cardinality(DOMAIN notifications) < MaxNotifications
    /\ LET row == [user_id |-> u, type |-> "answer_accepted", is_read |-> FALSE]
       IN  IF ok /\ PolicyInsertNotifications(uid, row)
           THEN /\ notifications' = Insert(notifications, row)
                /\ Did("InsertNotification", uid, u, "ok")
           ELSE /\ UNCHANGED notifications
                /\ Did("InsertNotification", uid, u, "error")
    /\ UNCHANGED <<storeQA, storeRes, asked, storeChat, pages, storeGroups,
                   user_badges, profiles, qd, cg, views>>

\* Profile.fetchNotifications: the user's notifications, newest first,
\* limit 10 (an error leaves the list as it was)
fetchNotifications(u) ==
    /\ Select(u, "notifications", 0,
              Limit(Descending({n \in DOMAIN notifications :
                        /\ notifications[n].user_id = u
                        /\ PolicySelectNotifications(u, notifications[n])}),
                    10))
    /\ UNCHANGED <<storeQA, storeRes, asked, storeChat, rs, storeGroups,
                   storeAwards, qd, cg, last, views>>

\* Profile.markNotificationAsRead(notificationId): update notifications set
\* is_read = true where id = notificationId
markNotificationAsRead(u, n, ok) ==
    /\ n \in DOMAIN notifications
    /\ IF ok
       THEN /\ notifications' = [i \in DOMAIN notifications |->
                  IF i = n /\ PolicyUpdateNotifications(u, notifications[i])
                  THEN [notifications[i] EXCEPT !.is_read = TRUE]
                  ELSE notifications[i]]
            /\ Did("markNotificationAsRead", u, ToString(n), "done")
       ELSE /\ UNCHANGED notifications
            /\ Did("markNotificationAsRead", u, ToString(n), "error")
    /\ UNCHANGED <<storeQA, storeRes, asked, storeChat, pages, storeGroups,
                   user_badges, profiles, qd, cg, views>>

NextNotifications ==
    \/ \E uid \in ReadActors, u \in ReadUsers, ok \in BOOLEAN :
          InsertNotification(uid, u, ok)
    \/ \E u \in ReadActors : fetchNotifications(u)
    \/ \E u \in ReadActors, n \in 1..MaxNotifications, ok \in BOOLEAN :
          markNotificationAsRead(u, n, ok)

SpecNotifications == Init /\ [][NextNotifications]_vars

\* -------------------------------------------------------- user_badges
\* "System can award badges": WITH CHECK (true)
PolicyInsertUserBadges(uid, row) == TRUE

\* the table without its constraint
NoUniqueUserBadges(row) == TRUE

\* user_badges: UNIQUE(user_id, badge_id)
UniqueUserBadges(row) ==
    \A i \in DOMAIN user_badges :
        ~(user_badges[i].user_id = row.user_id
            /\ user_badges[i].badge_id = row.badge_id)

\* insert into user_badges (user_id, badge_id), by any client
InsertUserBadge(uid, u, b, ok) ==
    /\ LET row == [user_id |-> u, badge_id |-> b]
       IN  IF ~ok
           THEN /\ UNCHANGED user_badges
                /\ Did("InsertUserBadge", u, b, "error")
           ELSE IF PolicyInsertUserBadges(uid, row) /\ UniqueUserBadges(row)
           THEN /\ Cardinality(DOMAIN user_badges) < MaxUserBadges
                /\ user_badges' = Insert(user_badges, row)
                /\ Did("InsertUserBadge", u, b, "ok")
           ELSE /\ UNCHANGED user_badges
                /\ Did("InsertUserBadge", u, b, "conflict")
    /\ UNCHANGED <<storeQA, storeRes, asked, storeChat, pages, storeGroups, notifications, profiles,
                   qd, cg, views>>

\* the users and badges awarded in the badge specification
AwardUsers == {"u1", "u2"}
AwardBadges == {"First Question", "Rising Star", "Study Master"}

NextBadges ==
    \E uid \in Actors, u \in AwardUsers, b \in AwardBadges, ok \in BOOLEAN :
        InsertUserBadge(uid, u, b, ok)

SpecBadges == Init /\ [][NextBadges]_vars

\* ------------------------------------------------ answer acceptance
Accepted(q) == {a \in AnswersOf(q) : answers[a].is_accepted}

\* C1: every question has at most one answer with is_accepted = true, in
\* every reachable state and under every interleaving of accepts.
C1_AtMostOneAccepted ==
    \A q \in DOMAIN questions : Cardinality(Accepted(q)) <= 1

\* the step in which acceptAnswer of session s has made its third write and
\* shows "Answer accepted!"
AcceptCompletes(s) == qd[s].pc = "resolve" /\ qd'[s].pc = "refresh"

\* C2: when the asker's accept of an answer completes and the question is
\* marked resolved, the target answer is accepted and no other answer of the
\* question is.
C2_AcceptMarksTarget ==
    [][\A s \in Tabs :
         (AcceptCompletes(s) /\ questions'[qd[s].id].is_resolved) =>
            /\ answers'[qd[s].target].is_accepted
            /\ \A b \in AnswersOf(qd[s].id) \ {qd[s].target} :
                   ~answers'[b].is_accepted]_vars

\* C3: in every state a reader can observe, a question is resolved if and
\* only if exactly one of its answers is accepted.
C3_ResolvedIffOneAccepted ==
    \A q \in DOMAIN questions :
        questions[q].is_resolved <=> (Cardinality(Accepted(q)) = 1)

\* a step of the acceptAnswer call of session s: its first line, or one of
\* its writes
AcceptStep(s) ==
    \/ last' # last /\ last'.op = "acceptAnswer" /\ last'.by = s
    \/ qd'[s] # qd[s] /\ (qd[s].pc # "idle" \/ qd'[s].pc # "idle")

FlagsUnchanged ==
    /\ DOMAIN answers' = DOMAIN answers
    /\ DOMAIN questions' = DOMAIN questions
    /\ \A a \in DOMAIN answers : answers'[a].is_accepted = answers[a].is_accepted
    /\ \A q \in DOMAIN questions :
          questions'[q].is_resolved = questions[q].is_resolved

NotAsker(s) ==
    /\ qd[s].id \in DOMAIN questions
    /\ SessionUser[s] # questions[qd[s].id].user_id

\* C4: an accept call by an actor who is not the asker of the question
\* (another signed-in user, or a signed-out visitor) changes no answer's
\* is_accepted and no question's is_resolved.
C4_OnlyAskerAccepts ==
    [][\A s \in Tabs : (NotAsker(s) /\ AcceptStep(s)) => FlagsUnchanged]_vars

\* a signed-in user who is not the asker has called accept on an answer of
\* their own, with the question loaded, and the call has returned
C4_Witness ==
    /\ last.op = "acceptAnswer" /\ last.res = "return"
    /\ \E s \in Tabs :
         /\ last.by = s
         /\ SessionUser[s] # NoUser
         /\ NotAsker(s)
         /\ qd[s].question.loaded
         /\ \E a \in AnswersOf(qd[s].id) : answers[a].user_id = SessionUser[s]

\* the step in which acceptAnswer of session s passes its first line
AcceptBegins(s) == qd[s].pc = "idle" /\ qd'[s].pc = "clear"

\* C5: a resolved question stays resolved, no accept call on it gets past
\* the precondition, and its accepted answer never changes afterwards.
C5_ResolvedIsFinal ==
    [][\A q \in DOMAIN questions :
         questions[q].is_resolved =>
            /\ questions'[q].is_resolved
            /\ \A s \in Tabs : ~(qd[s].id = q /\ AcceptBegins(s))
            /\ \A a \in AnswersOf(q) :
                   answers'[a].is_accepted = answers[a].is_accepted]_vars

\* C6: when an accept that left its target accepted and the question
\* resolved finishes, the answer's author owns an unread answer_accepted notification and holds the
\* "Problem Solver" badge.
C6_AcceptNotifiesAndAwards ==
    [][\A s \in Tabs :
         (qd[s].pc = "refresh" /\ qd'[s].pc # "refresh"
             /\ answers[qd[s].target].is_accepted
             /\ questions[qd[s].id].is_resolved) =>
            LET author == answers[qd[s].target].user_id
            IN  /\ \E n \in DOMAIN notifications' :
                     /\ notifications'[n].user_id = author
                     /\ notifications'[n].type = "answer_accepted"
                     /\ ~notifications'[n].is_read
                /\ \E i \in DOMAIN user_badges' :
                     /\ user_badges'[i].user_id = author
                     /\ user_badges'[i].badge_id = "Problem Solver"]_vars

\* C10: once the handlers that change a user's counts have finished, the
\* user holds every badge whose metric has reached its requirement_value.
C10_EligibleBadgesHeld ==
    (\A s \in Tabs : qd[s].pc = "idle") =>
        \A u \in Users, b \in BadgeNames :
            CurrentValue(u, b) >= Badges[b].requirement_value => HoldsBadge(u, b)

\* C11: a user holds the "First Question" badge exactly when they have
\* created a question: the user_badges row exists after their first
\* successful question creation, and never for a user without a question.
C11_FirstQuestionBadge ==
    \A u \in Users :
        HoldsBadge(u, "First Question") <=> UserStats(u).questions_asked >= 1

\* -------------------------------------------------------------- content
Content(row) == [title |-> row.title, content |-> row.content,
                 difficulty |-> row.difficulty]

\* the session whose handler takes the step acts for the owner of the row
ByOwner(owner) ==
    \E s \in Tabs : qd'[s] # qd[s] /\ SessionUser[s] = owner

C17_ViewCountMonotone ==
    [][\A q \in DOMAIN questions :
          questions'[q].view_count >= questions[q].view_count]_vars

\* the latest call is op, made by a session of a signed-in user who does not
\* own the row, and the store answered it without an error
ByNonOwner(op, id, owner) ==
    /\ last' # last
    /\ last'.op = op
    /\ last'.arg = ToString(id)
    /\ last'.res = "done"
    /\ SessionUser[last'.by] # NoUser
    /\ SessionUser[last'.by] # owner

\* C19: when a signed-in user who does not own the row views a question or
\* upvotes an answer, the stored view_count / upvotes of the row goes up by
\* one.
C19_CountersOpenToAll ==
    [][/\ \A q \in DOMAIN questions :
            ByNonOwner("incrementViewCount", q, questions[q].user_id) =>
               questions'[q].view_count = questions[q].view_count + 1
       /\ \A a \in DOMAIN answers :
            ByNonOwner("upvoteAnswer", a, answers[a].user_id) =>
               answers'[a].upvotes = answers[a].upvotes + 1]_vars

\* the row-level rule lets no row through for the update the latest call
\* (op, on row id of the given owner) has issued
Blocked(op, id, owner) ==
    /\ last' # last
    /\ last'.op = op
    /\ last'.arg = ToString(id)
    /\ SessionUser[last'.by] # owner

\* C16: an update that the row-level rule blocks makes the calling handler
\* take its failure path; it is never answered as done.
C16_DeniedIsReported ==
    [][/\ \A q \in DOMAIN questions :
            Blocked("incrementViewCount", q, questions[q].user_id) =>
               last'.res = "error"
       /\ \A a \in DOMAIN answers :
            Blocked("upvoteAnswer", a, answers[a].user_id) =>
               last'.res = "error"]_vars

\* C18: the stored download_count of a resource never decreases, however
\* the downloadResource calls of the sessions (each with its own copy of the
\* list) interleave.
C18_DownloadCountMonotone ==
    [][\A r \in DOMAIN resources :
          resources'[r].download_count >= resources[r].download_count]_vars

\* C26: a completed increment by a client allowed to update the row raises
\* the stored counter by exactly one, whatever the other sessions have done
\* since this session read the value (so k completed increments raise it
\* by k); stated on download_count.
C26_IncrementsNotLost ==
    [][\A s \in Tabs, r \in DOMAIN resources :
          (/\ downloadResource(s, r, TRUE)
           /\ PolicyUpdateResources(SessionUser[s], resources[r]))
             => resources'[r].download_count
                  = resources[r].download_count + 1]_vars

\* --------------------------------------------------------- study groups
\* C7: no study group has more group_members rows than its max_members.
C7_MemberCap ==
    \A g \in DOMAIN study_groups :
        Cardinality(MembersOf(g)) <= study_groups[g].max_members

\* C8: every existing study group has a group_members row enrolling its
\* creator as admin.
C8_CreatorIsAdmin ==
    \A g \in DOMAIN study_groups :
        \E m \in MembersOf(g) :
            /\ group_members[m].user_id = study_groups[g].creator_id
            /\ group_members[m].role = "admin"

\* the rule for reading a study group: it is public, or the reader created it
MayReadGroup(u, g) ==
    study_groups[g].privacy = "public" \/ study_groups[g].creator_id = u

\* C12: a select on study_groups hands a row to an actor if and only if the
\* group is public or the actor is its creator; nobody else (signed out,
\* signed in, enrolled or not) receives a private group.
C12_GroupReadRule ==
    [][(got' # got /\ got'.from = "study_groups") =>
          Range(got'.rows) =
             {g \in DOMAIN study_groups :
                 got'.key \in {0, g} /\ MayReadGroup(got'.by, g)}]_vars

\* an enrolled member who is not the creator has listed the groups while a
\* private group they belong to exists
C12_Witness ==
    /\ got.from = "study_groups"
    /\ got.key = 0
    /\ \E g \in DOMAIN study_groups :
         /\ study_groups[g].privacy = "private"
         /\ study_groups[g].creator_id # got.by
         /\ \E m \in MembersOf(g) : group_members[m].user_id = got.by
         /\ g \notin Range(got.rows)

\* the one trace of an invitation in the schema: a notification of type
\* 'group_invitation' owned by the user
Invited(u) ==
    \E n \in DOMAIN notifications :
        /\ notifications[n].user_id = u
        /\ notifications[n].type = "group_invitation"

\* C28: every membership row of a private group belongs to the creator of
\* the group or to a user who was invited.
C28_PrivateJoinByInvitation ==
    \A i \in DOMAIN group_members :
        LET g == group_members[i].group_id
        IN  (g \in DOMAIN study_groups /\ study_groups[g].privacy = "private")
              => \/ group_members[i].user_id = study_groups[g].creator_id
                 \/ Invited(group_members[i].user_id)

LatestMessages(uid, g) ==
    Ascending(Range(Limit(Descending(VisibleMessages(uid, g)), FetchLimit)))

\* C20: the load of the chat of a group that holds more than 50 messages
\* returns the 50 latest messages of the group, in ascending order of
\* creation (message ids grow with created_at).
C20_LoadsMostRecent ==
    [][\A u \in Actors, g \in DOMAIN study_groups :
          (/\ fetchMessages(u, g)
           /\ Cardinality(VisibleMessages(u, g)) > FetchLimit)
             => got'.rows = LatestMessages(u, g)]_vars

OwnedRows(u) ==
    [questions     |-> Rows(questions, LAMBDA r : r.user_id = u),
     answers       |-> Rows(answers, LAMBDA r : r.user_id = u),
     study_groups  |-> Rows(study_groups, LAMBDA r : r.creator_id = u),
     group_members |-> Rows(group_members, LAMBDA r : r.user_id = u),
     resources     |-> Rows(resources, LAMBDA r : r.user_id = u),
     messages      |-> Rows(messages, LAMBDA r : r.user_id = u),
     user_badges   |-> Rows(user_badges, LAMBDA r : r.user_id = u),
     notifications |-> Rows(notifications, LAMBDA r : r.user_id = u)]

\* C23: once a user is deleted, no profile, question, answer, study group,
\* membership, resource, message, user badge or notification row names the
\* deleted user.
C23_DeleteCascades ==
    \A u \in Users \ DOMAIN profiles :
        \A t \in DOMAIN OwnedRows(u) : OwnedRows(u)[t] = {}

\* ------------------------------------------------------- group page
\* the positions of a list at which a message is shown for the first time
FirstShown(list) ==
    {i \in DOMAIN list : \A k \in 1..(i - 1) : list[k] # list[i]}

\* C21: in the message list of a client, two messages of one group stand in
\* the order in which they were created (ids ascend with created_at),
\* whatever the order in which the profile lookups of their callbacks answer.
C21_PushOrderKept ==
    \A u \in Users :
        \A i, j \in FirstShown(gd[u].list) :
            (/\ i < j
             /\ messages[gd[u].list[i]].group_id
                  = messages[gd[u].list[j]].group_id)
                => gd[u].list[i] < gd[u].list[j]

\* the page of u is at rest: its channel is joined, its snapshot is set and
\* no callback awaits a lookup
AtRest(u) ==
    /\ gd[u].id # 0
    /\ gd[u].snap = "none"
    /\ gd[u].joining = {}
    /\ gd[u].pending = {}

Shown(u, m) == {i \in DOMAIN gd[u].list : gd[u].list[i] = m}

\* C29: once the snapshot and every callback of an open group page are done,
\* each message of its group created since the page opened stands exactly
\* once in the list: none is lost to the snapshot overwriting the pushes
\* appended before it, none is shown twice for coming in both.
C29_EachMessageOnce ==
    \A u \in Users :
        AtRest(u) =>
            \A m \in VisibleMessages(u, gd[u].id) :
                m > gd[u].since => Cardinality(Shown(u, m)) = 1

\* C30: a client holds channels only on the group its page shows (none
\* once the page is left), and no message of another group is ever
\* appended to the list.
C30_OnlyCurrentGroup ==
    /\ [](\A u \in Users :
             (gd[u].joining \cup gd[u].subs \cup gd[u].stale)
                 \subseteq ({gd[u].id} \ {0}))
    /\ [][\A u \in Users : \A m \in DOMAIN messages :
             (gd[u].id # 0 /\ gd'[u].list = Append(gd[u].list, m))
                 => messages[m].group_id = gd'[u].id]_vars

\* ---------------------------------------------------------- profiles
\* C24: the point total of every profile is a non-negative integer in every
\* state the profile writes allowed by the policies can reach.
C24_PointsNonNegative ==
    \A u \in DOMAIN profiles : profiles[u].points >= 0

\* the metric named by the badge's requirement_type, from what the page had
MetricOf(p) ==
    IF Badges[p.badge].requirement_type = "points" THEN p.points ELSE p.stat

\* C27: the progress rendered for a badge not yet earned is
\* min(current * 100 / requirement_value, 100) with current the metric named
\* by requirement_type; it is at most 100, it is 0 for a count badge whose
\* count is 0, and current is the figure shown next to it (both sides of
\* the equations are multiplied by requirement_value).
C27_ProgressFromNamedMetric ==
    pf.by # "" =>
        LET value == Badges[pf.badge].requirement_value
        IN  /\ pf.scaled = Min(MetricOf(pf) * 100, 100 * value)
            /\ pf.scaled <= 100 * value
            /\ (Badges[pf.badge].requirement_type # "points" /\ pf.stat = 0)
                  => pf.scaled = 0
            /\ pf.current = MetricOf(pf)

\* ------------------------------------------------------ ai-suggestions
\* the request served last has failed: its body is malformed, its type is
\* unknown, or the upstream call failed (rejected, or answered with an
\* error status)
UpstreamFailed == px.reply.kind = "throws" \/ px.reply.status >= 400
ProxyFailure ==
    \/ ~px.req.parses
    \/ px.req.type \notin SuggestionTypes
    \/ UpstreamFailed

\* the messages of the error the failure comes from
UnderlyingMessages ==
    IF ~px.req.parses THEN {SyntaxErrorMessage}
    ELSE IF px.req.type \notin SuggestionTypes THEN {InvalidType}
    ELSE IF px.reply.kind = "text" THEN {SyntaxErrorMessage}
    ELSE {px.reply.error}

\* C25: every request gets exactly one response; OPTIONS gets an empty 200;
\* another request either succeeds, with a suggestion that is the parsed
\* object or { content: text } for a completion that does not parse, or
\* fails (unknown type, malformed body, upstream failure) with
\* success = false, a non-2xx status and the underlying error's message; a
\* request of unknown type is never forwarded upstream.
C25_ProxyContract ==
    px.req # NoRequest =>
        /\ Len(px.out) = 1
        /\ px.req.method = "OPTIONS" =>
               px.out[1].status = 200 /\ px.out[1].empty
        /\ (px.req.method # "OPTIONS" /\ px.out[1].success = "true") =>
               \/ px.out[1].type = "object"
               \/ px.out[1].type = "content" /\ JSONparse(px.out[1].of).threw
        /\ (px.req.method # "OPTIONS" /\ ProxyFailure) =>
               /\ px.out[1].success = "false"
               /\ px.out[1].status \notin 200..299
               /\ px.out[1].error \in UnderlyingMessages
        /\ (px.req.method # "OPTIONS" /\ px.req.parses
              /\ px.req.type \notin SuggestionTypes) => px.sent = <<>>

\* -------------------------------------------------------- notifications
\* C15: no operation of a client creates a notification owned by another
\* user, a select hands a notification only to its owner, and the read flag
\* of a notification changes only by an operation of its owner.
C15_NotificationsOwnerOnly ==
    [][/\ \A n \in DOMAIN notifications' \ DOMAIN notifications :
            notifications'[n].user_id = last'.by
       /\ (got' # got /\ got'.from = "notifications") =>
            \A n \in Range(got'.rows) : notifications[n].user_id = got'.by
       /\ \A n \in DOMAIN notifications :
            notifications'[n].is_read # notifications[n].is_read =>
               last'.by = notifications[n].user_id]_vars

\* ---------------------------------------------------------- user_badges
UniquePairs(t) ==
    \A i, j \in DOMAIN t :
        (t[i].user_id = t[j].user_id /\ t[i].badge_id = t[j].badge_id) => i = j

\* C9: user_badges never holds two rows for one (user, badge) pair, and an
\* award of a badge the user already holds leaves user_badges as it was.
C9_AwardOnce ==
    [][/\ UniquePairs(user_badges')
       /\ (last'.op = "InsertUserBadge" /\ HoldsBadge(last'.by, last'.arg))
             => user_badges' = user_badges]_vars

\* an award of a badge its user already held has been attempted
C9_Witness ==
    /\ last.op = "InsertUserBadge"
    /\ last.res = "conflict"
    /\ HoldsBadge(last.by, last.arg)
    /\ Cardinality(DOMAIN user_badges) >= 2

====
